---------------------------- MODULE Spec2Model ----------------------------
(***************************************************************************)
(* State-machine model of simple-commerce (src/main.go): the two limiter   *)
(* instances, the role check, order ingestion against the relational store *)
(* created by initDB, the three aggregation reads, the daily reminder     *)
(* sweep of BackgroundTask, and request goroutines racing on the limiter.  *)
(*                                                                         *)
(* Time is counted in milliseconds, limiter tokens in thousandths of a     *)
(* token, so that limit tokens per second is limit milli-tokens per ms.    *)
(***************************************************************************)
EXTENDS Integers, Sequences, FiniteSets, TLC

VARIABLES
  now,             \* wall clock, ms since process start
  limiters,        \* the two *rate.Limiter values: name -> [limit, burst, tokens, last]
  calls,           \* per limiter and key: what the Allow calls made so far returned
  orders,          \* table orders: id -> [customer_id, status]
  order_products,  \* table order_products: set of [order_id, product_id]
  worker,          \* place-order request workers
  lastResp,        \* the latest HTTP response written, with the route and token it answers
  lastRead,        \* outcome of the latest aggregation read
  report,          \* contents of order_report.csv
  advances,        \* number of clock advances so far
  task,            \* the BackgroundTask goroutine: where it is in its loop
  sweeps,          \* history of the reminder sweeps started so far
  mail,            \* the SendEmailReminder calls of the latest sweep
  emailColumn,     \* whether table orders has a column customer_email
  callers,         \* request goroutines inside rateLimiter.Allow
  mu               \* the mutex of rateLimiter: its holder, or "free"

vars == <<now, limiters, calls, orders, order_products, worker,
          lastResp, lastRead, report, advances,
          task, sweeps, mail, emailColumn, callers, mu>>

backgroundVars == <<task, sweeps, mail, emailColumn>>

lockVars == <<callers, mu>>

serverVars == <<orders, order_products, worker, lastResp, lastRead, report>>

(***************************************************************************)
(* Limiters                                                                *)
(***************************************************************************)

\* var rateLimiter = NewRateLimiter(100, time.Minute)
RateLimit == 100
RateWindowSeconds == 60
\* var taskLimiter = NewRateLimiter(1, 24*time.Hour)
TaskLimit == 1
TaskWindowSeconds == 86400

\* Allow calls explored: by the first client, by every other client, and by
\* the background task.
MaxRequestCalls == 61
MaxOtherCalls == 2
MaxTaskCalls == 3
\* Number of clock advances explored.
MaxAdvances == 1

\* x whole units in thousandths (tokens in milli-tokens, seconds in ms).
Milli(x) == x * 1000

LimiterNames == {"rateLimiter", "taskLimiter"}

ClientAddrs == {"10.0.0.1:4001", "10.0.0.2:4002"}

TaskKey == "background-task"

\* The keys each limiter is called with: r.RemoteAddr, and the fixed task key.
LimiterKeys(l) == IF l = "rateLimiter" THEN ClientAddrs ELSE {TaskKey}

\* The limit and window each instance was configured for.
ConfiguredLimit(l) == IF l = "rateLimiter" THEN RateLimit ELSE TaskLimit

ConfiguredWindowMs(l) ==
  Milli(IF l = "rateLimiter" THEN RateWindowSeconds ELSE TaskWindowSeconds)

\* rate.NewLimiter(rate.Limit(limit), int(window.Seconds())): the first
\* argument is the refill rate in tokens per second, the second the burst.
\* A new limiter grants a full burst.
NewRateLimiter(limit, windowSeconds) ==
  [limit  |-> limit,
   burst  |-> windowSeconds,
   tokens |-> Milli(windowSeconds),
   last   |-> 0]

Min(a, b) == IF a <= b THEN a ELSE b

\* rate.Limiter.advance: tokens accrued up to time t, capped at the burst.
\* As in the library, the elapsed time is first cut to the time that fills
\* the bucket, which also keeps the product small.
Advance(lim, t) ==
  LET maxElapsed == (Milli(lim.burst) - lim.tokens + lim.limit - 1) \div lim.limit
      elapsed    == Min(t - lim.last, maxElapsed)
  IN Min(Milli(lim.burst), lim.tokens + elapsed * lim.limit)

\* rate.Limiter.Allow at time t. The limiter holds ONE bucket: the key the
\* callers pass selects nothing.
AllowOk(lim, key, t) == Advance(lim, t) >= Milli(1)

AllowNext(lim, key, t) ==
  IF AllowOk(lim, key, t)
    THEN [lim EXCEPT !.tokens = Advance(lim, t) - Milli(1), !.last = t]
    ELSE lim

NoCalls == [n |-> 0, granted |-> 0, last |-> FALSE, lastAt |-> 0, gap |-> 0]

\* History of the calls made with key k on a limiter, after one more call at
\* time t that returned ok: their number, how many returned true, the latest
\* result, its time and the time since the call before it.
Recorded(c, t, ok) ==
  [n       |-> c.n + 1,
   granted |-> c.granted + (IF ok THEN 1 ELSE 0),
   last    |-> ok,
   lastAt  |-> t,
   gap     |-> IF c.n = 0 THEN 0 ELSE t - c.lastAt]

\* Allow calls made so far on a limiter, over all keys.
TotalCalls(l) ==
  LET RECURSIVE Sum(_)
      Sum(S) == IF S = {} THEN 0
                ELSE LET k == CHOOSE x \in S : TRUE
                     IN calls[l][k].n + Sum(S \ {k})
  IN Sum(LimiterKeys(l))

\* limiter.Allow(key) at the current time: the limiter after the call, and
\* the call entered in the history of its key.
LimitersAfterAllow(l, k) ==
  [limiters EXCEPT ![l] = AllowNext(limiters[l], k, now)]

CallsAfterAllow(l, k) ==
  [calls EXCEPT ![l] =
     [x \in LimiterKeys(l) |->
        IF x = k THEN Recorded(calls[l][k], now, AllowOk(limiters[l], k, now))
        ELSE calls[l][x]]]

FirstClient == CHOOSE a \in ClientAddrs : TRUE

CallBound(l, k) ==
  IF l = "taskLimiter" THEN MaxTaskCalls
  ELSE IF k = FirstClient THEN MaxRequestCalls ELSE MaxOtherCalls

\* One call limiter.Allow(key), as RateLimitMiddleware and BackgroundTask
\* make it.
AllowCall(l, k) ==
  /\ UNCHANGED <<backgroundVars, lockVars>>
  /\ calls[l][k].n < CallBound(l, k)
  /\ limiters' = LimitersAfterAllow(l, k)
  /\ calls' = CallsAfterAllow(l, k)
  /\ UNCHANGED <<now, advances, serverVars>>

\* Durations the clock may jump by: one request token (10 ms)
\* and each configured window.
Durations == {10} \cup {ConfiguredWindowMs(l) : l \in LimiterNames}

Tick(d) ==
  /\ UNCHANGED <<backgroundVars, lockVars>>
  /\ advances < MaxAdvances
  /\ advances' = advances + 1
  /\ now' = now + d
  /\ UNCHANGED <<limiters, calls, serverVars>>

InitLimiters ==
  /\ now = 0
  /\ advances = 0
  /\ limiters = [l \in LimiterNames |->
                   IF l = "rateLimiter"
                     THEN NewRateLimiter(RateLimit, RateWindowSeconds)
                     ELSE NewRateLimiter(TaskLimit, TaskWindowSeconds)]
  /\ calls = [l \in LimiterNames |-> [k \in LimiterKeys(l) |-> NoCalls]]

(***************************************************************************)
(* Access control and routes                                               *)
(***************************************************************************)

customerToken == "customer_token"

adminToken == "admin_token"

\* Authorization headers tried: each secret, and none ("" is what
\* r.Header.Get returns for a missing header).
TokenInputs == {customerToken, adminToken, ""}

Routes == {"/place-order", "/customer/orders", "/admin/orders"}

\* The route table of main: the role each route requires, and whether the
\* route is wrapped in RateLimitMiddleware.
RouteRole(route) == IF route = "/admin/orders" THEN "admin" ELSE "customer"

RouteLimited(route) == route # "/customer/orders"

\* The role check gone wrong: either secret opens every role.
AuthMiddlewareAnySecret(role, token) ==
  IF token \in {customerToken, adminToken} THEN 0 ELSE 401

\* The default case answering as the other cases do.
AuthMiddlewareUnknownRoleUnauthorized(role, token) ==
  CASE role = "customer" -> (IF token # customerToken THEN 401 ELSE 0)
    [] role = "admin"    -> (IF token # adminToken THEN 401 ELSE 0)
    [] OTHER             -> 401

\* AuthMiddleware: the status it answers with itself, 0 when it calls next.
AuthMiddleware(role, token) ==
  CASE role = "customer" -> (IF token # customerToken THEN 401 ELSE 0)
    [] role = "admin"    -> (IF token # adminToken THEN 401 ELSE 0)
    [] OTHER             -> 500

\* RateLimitMiddleware: 429 when rateLimiter.Allow(r.RemoteAddr) is false.
RateLimitMiddleware(addr) ==
  IF AllowOk(limiters["rateLimiter"], addr, now) THEN 0 ELSE 429

\* The chain with the two middlewares in the other order.
MiddlewareTokenFirst(route, addr, token) ==
  IF AuthMiddleware(RouteRole(route), token) # 0
    THEN AuthMiddleware(RouteRole(route), token)
    ELSE IF RouteLimited(route) THEN RateLimitMiddleware(addr) ELSE 0

\* The middleware chain of a route: the status that short-circuits the
\* request, 0 when the handler is invoked.
Middleware(route, addr, token) ==
  IF RouteLimited(route) /\ RateLimitMiddleware(addr) # 0
    THEN RateLimitMiddleware(addr)
    ELSE AuthMiddleware(RouteRole(route), token)

\* A request that takes no permit.
LimitersKeptAfterRequest(route, addr) == limiters

\* The limiter and its call history after a request on the route.
LimitersAfterRequest(route, addr) ==
  IF RouteLimited(route) THEN LimitersAfterAllow("rateLimiter", addr) ELSE limiters

CallsAfterRequest(route, addr) ==
  IF RouteLimited(route) THEN CallsAfterAllow("rateLimiter", addr) ELSE calls

(***************************************************************************)
(* The relational store                                                    *)
(***************************************************************************)

\* Orders, items per request and requests through the limiter explored.
MaxOrders == 2
MaxItems == 2
MaxServerRequests == 2
\* Association rows of the stores the aggregation reads are applied to.
MaxRows == 3

\* Rows of customers and products; every positive id tried exists.
Customers == {1, 2}

Products == {1, 2}

\* customer_id values tried: 0 is also what a missing field decodes to.
CustomerIdInputs == {0} \cup Customers

QuantityInputs == {0, 1}

OrderItems == [product_id : Products, quantity : QuantityInputs]

SeqsUpTo(S, n) == UNION {[1..k -> S] : k \in 0..n}

\* Request bodies: decoded OrderRequest values, and one that is not JSON.
NoRequest == [json |-> FALSE, customer_id |-> 0, products |-> <<>>]

Bodies ==
  {NoRequest} \cup
  [json : {TRUE}, customer_id : CustomerIdInputs, products : SeqsUpTo(OrderItems, MaxItems)]

\* The zero time.Time, before every clock value.
ZeroTime == 0 - 1

\* CREATE TABLE orders (id SERIAL, customer_id, date, status).
OrderRow(customerID, date) ==
  [customer_id |-> customerID, date |-> date, status |-> "Pending"]

\* CREATE TABLE order_products (order_id, product_id, PRIMARY KEY (order_id,
\* product_id)): the table has no quantity column.
OrderProductRow(orderID, item) ==
  [order_id |-> orderID, product_id |-> item.product_id]

OrderIds == 1..Len(orders)

\* The rows of order_products of one order.
RowsOf(o) == {r \in order_products : r.order_id = o}

(***************************************************************************)
(* Order ingestion                                                         *)
(***************************************************************************)

\* validateOrderRequest: whether it returns an error.
validateOrderRequest(req) ==
  \/ req.customer_id <= 0
  \/ Len(req.products) = 0
  \/ \E i \in 1..Len(req.products) : req.products[i].quantity <= 0

\* The handler going on after a failed validation.
ValidationStatusIgnored(req) == IF ~req.json THEN 400 ELSE 0

\* PlaceOrderHandler up to validation: the status it answers with, 0 when it
\* goes on to createOrder.
ValidationStatus(req) ==
  IF ~req.json THEN 400
  ELSE IF validateOrderRequest(req) THEN 400
  ELSE 0

\* createOrder: the orders table with the new header; the generated id is
\* its length.
createOrder(req) == Append(orders, OrderRow(req.customer_id, now))

Workers == {"w1"}

NoResponse == [route |-> "", role |-> "", token |-> "", status |-> 0, invoked |-> FALSE]

\* A response written by a middleware, or by a read handler.
Response(route, token, status, invoked) ==
  [route |-> route, role |-> RouteRole(route), token |-> token, status |-> status,
   invoked |-> invoked]

\* reportErr: what GenerateCSVReport returned to the request, "none" when it
\* was not called.
IdleWorker ==
  [pc |-> "idle", token |-> "", req |-> NoRequest, orderID |-> 0, idx |-> 0, status |-> 0,
   reportErr |-> "none"]

\* A worker whose PlaceOrderHandler has written its response.
Responded(token, req, orderID, status) ==
  [pc |-> "done", token |-> token, req |-> req, orderID |-> orderID, idx |-> 0,
   status |-> status, reportErr |-> "none"]

\* PlaceOrderHandler from the body to createOrder, which returns the new id
\* or an error (500, nothing stored).
PlaceOrderHandler(w, token, body) ==
  IF ValidationStatus(body) # 0
    THEN /\ worker' = [worker EXCEPT ![w] =
                         Responded(token, body, 0, ValidationStatus(body))]
         /\ UNCHANGED orders
    ELSE /\ Len(orders) < MaxOrders
         /\ \/ /\ worker' = [worker EXCEPT ![w] = Responded(token, body, 0, 500)]
               /\ UNCHANGED orders
            \/ /\ orders' = createOrder(body)
               /\ worker' = [worker EXCEPT ![w] =
                               [pc      |-> "associate",
                                token   |-> token,
                                req     |-> body,
                                orderID |-> Len(orders) + 1,
                                idx     |-> 1,
                                status  |-> 0,
                                reportErr |-> "none"]]

\* POST /place-order: RateLimitMiddleware(AuthMiddleware(PlaceOrderHandler,
\* "customer")), up to the first write to the store.
PlaceOrderServed(w, addr, token, body) ==
  /\ UNCHANGED <<backgroundVars, lockVars>>
  /\ worker[w].pc \in {"idle", "done"}
  /\ limiters' = LimitersAfterRequest("/place-order", addr)
  /\ calls' = CallsAfterRequest("/place-order", addr)
  /\ IF Middleware("/place-order", addr, token) # 0
       THEN /\ lastResp' = Response("/place-order", token,
                                    Middleware("/place-order", addr, token), FALSE)
            /\ UNCHANGED <<orders, worker>>
       ELSE /\ PlaceOrderHandler(w, token, body)
            /\ UNCHANGED lastResp
  /\ UNCHANGED <<now, advances, order_products, lastRead, report>>

\* One of the requests explored on the throttled routes.
PlaceOrderRequest(w, addr, token, body) ==
  /\ TotalCalls("rateLimiter") < MaxServerRequests
  /\ PlaceOrderServed(w, addr, token, body)

\* associateProducts, one INSERT per step: a failed INSERT (a duplicate key
\* or a data-access failure) ends the request with 500 and leaves the header
\* and the rows inserted so far.
AssociateStep(w, dbFail) ==
  /\ UNCHANGED <<backgroundVars, lockVars>>
  /\ worker[w].pc = "associate"
  /\ LET me  == worker[w]
         row == OrderProductRow(me.orderID, me.req.products[me.idx])
     IN IF dbFail \/ row \in order_products
          THEN /\ worker' = [worker EXCEPT ![w] =
                               Responded(me.token, me.req, me.orderID, 500)]
               /\ UNCHANGED order_products
          ELSE /\ order_products' = order_products \cup {row}
               /\ worker' = [worker EXCEPT ![w] =
                               IF me.idx = Len(me.req.products)
                                 THEN [me EXCEPT !.pc = "report"]
                                 ELSE [me EXCEPT !.idx = me.idx + 1]]
  /\ UNCHANGED <<now, advances, limiters, calls, orders, lastResp, lastRead, report>>

(***************************************************************************)
(* Aggregation reads                                                       *)
(***************************************************************************)

\* FROM orders o JOIN order_products op ON o.id = op.order_id JOIN products p
\* ON op.product_id = p.id: one flat row per (order, product) pair.
JoinRows ==
  {[order_id    |-> r.order_id,
    customer_id |-> orders[r.order_id].customer_id,
    date        |-> orders[r.order_id].date,
    status      |-> orders[r.order_id].status,
    product_id  |-> r.product_id] :
     r \in {x \in order_products : x.order_id \in OrderIds /\ x.product_id \in Products}}

\* The WHERE clause gone: the rows of the order whoever owns it.
QueryOrderDetailsAnyOwner(orderID, customerID) ==
  {row \in JoinRows : row.order_id = orderID}

\* WHERE o.id = $1 AND o.customer_id = $2. The select list of this query
\* also names op.quantity: on a table that lacks the column db.Query returns
\* an error, which is the failure kind "query" below; these are the rows of a
\* query that is accepted.
QueryOrderDetails(orderID, customerID) ==
  {row \in JoinRows : row.order_id = orderID /\ row.customer_id = customerID}

\* WHERE o.customer_id = $1
QueryCustomerOrders(customerID) ==
  {row \in JoinRows : row.customer_id = customerID}

QueryAllOrders == JoinRows

\* The orders in which the rows of a result set may arrive.
Arrivals(S) ==
  {f \in [1..Cardinality(S) -> S] : \A i, j \in 1..Cardinality(S) : f[i] = f[j] => i = j}

\* What may go wrong with a query of n rows: db.Query returns an error;
\* rows.Scan fails on row at; the row stream breaks after at rows, when
\* rows.Next returns false and the error is left in rows.Err.
Failures(n) ==
  {[kind |-> "none", at |-> 0], [kind |-> "query", at |-> 0]}
    \cup [kind : {"scan"}, at : 1..n]
    \cup [kind : {"stream"}, at : 0..(n - 1)]

\* The rows the loop `for rows.Next()` visits.
Visited(arrival, fail) ==
  IF fail.kind = "stream" THEN SubSeq(arrival, 1, fail.at) ELSE arrival

\* Whether the call returns (nil, err).
ReturnsError(fail) == fail.kind \in {"query", "scan"}

\* The Product scanned from a row (name, price, description and image
\* follow from the id).
ProductOf(row) == [ID |-> row.product_id]

\* The fold forgetting the product of the row that creates the record.
FoldRowDroppingFirst(m, row, withCustomer) ==
  IF row.order_id \in DOMAIN m
    THEN [m EXCEPT ![row.order_id].Products = Append(@, ProductOf(row))]
    ELSE m @@ (row.order_id :>
                 [ID         |-> row.order_id,
                  CustomerID |-> IF withCustomer THEN row.customer_id ELSE 0,
                  Date       |-> row.date,
                  Status     |-> row.status,
                  Products   |-> <<>>])

\* One turn of the grouping loop on the map orders: append the product to the
\* record of the order, or create the record with the product. Only
\* getAllOrdersWithProducts scans customer_id.
FoldRow(m, row, withCustomer) ==
  IF row.order_id \in DOMAIN m
    THEN [m EXCEPT ![row.order_id].Products = Append(@, ProductOf(row))]
    ELSE m @@ (row.order_id :>
                 [ID         |-> row.order_id,
                  CustomerID |-> IF withCustomer THEN row.customer_id ELSE 0,
                  Date       |-> row.date,
                  Status     |-> row.status,
                  Products   |-> <<ProductOf(row)>>])

RECURSIVE FoldRows(_, _, _)
FoldRows(m, rows, withCustomer) ==
  IF rows = <<>> THEN m
  ELSE FoldRows(FoldRow(m, Head(rows), withCustomer), Tail(rows), withCustomer)

\* "Convert map to slice": the records of the map; their order in the slice
\* is the map's iteration order and is not kept.
MapValues(m) == {m[o] : o \in DOMAIN m}

\* getCustomerOrdersWithProducts over the rows in their arrival order.
getCustomerOrdersWithProducts(arrival, fail) ==
  IF ReturnsError(fail) THEN [err |-> TRUE, result |-> {}]
  ELSE [err |-> FALSE, result |-> MapValues(FoldRows(<<>>, Visited(arrival, fail), FALSE))]

\* getAllOrdersWithProducts over the rows in their arrival order.
getAllOrdersWithProducts(arrival, fail) ==
  IF ReturnsError(fail) THEN [err |-> TRUE, result |-> {}]
  ELSE [err |-> FALSE, result |-> MapValues(FoldRows(<<>>, Visited(arrival, fail), TRUE))]

\* One turn of the loop of getOrderDetails: Scan overwrites the four order
\* fields and the product is appended.
ScanOrderDetail(order, row) ==
  [ID         |-> row.order_id,
   CustomerID |-> row.customer_id,
   Date       |-> row.date,
   Status     |-> row.status,
   Products   |-> Append(order.Products, ProductOf(row))]

RECURSIVE ScanOrderDetails(_, _)
ScanOrderDetails(order, rows) ==
  IF rows = <<>> THEN order
  ELSE ScanOrderDetails(ScanOrderDetail(order, Head(rows)), Tail(rows))

\* getOrderDetails: the record is built from the two arguments before any
\* row is read; result is empty for a nil *OrderWithProducts.
getOrderDetails(orderID, customerID, arrival, fail) ==
  IF ReturnsError(fail) THEN [err |-> TRUE, result |-> {}]
  ELSE [err    |-> FALSE,
        result |-> {ScanOrderDetails([ID         |-> orderID,
                                      CustomerID |-> customerID,
                                      Date       |-> ZeroTime,
                                      Status     |-> "",
                                      Products   |-> <<>>],
                                     Visited(arrival, fail))}]

NoRead ==
  [op |-> "", orderID |-> 0, customerID |-> 0, rows |-> {}, fail |-> "none",
   err |-> FALSE, result |-> {}]

\* The outcome of a read, with its arguments, the rows its query matched and
\* the data-access failure that occurred during the call.
ReadOutcome(op, orderID, customerID, rows, fail, out) ==
  [op |-> op, orderID |-> orderID, customerID |-> customerID, rows |-> rows,
   fail |-> fail.kind, err |-> out.err, result |-> out.result]

\* getCustomerID: the X-Customer-ID header parsed, 0 when it is no number.
CustomerIdHeaders == {0} \cup Customers

\* GET /customer/orders: AuthMiddleware(CustomerOrdersHandler, "customer").
CustomerOrdersRequest(token, customerID) ==
  /\ UNCHANGED <<backgroundVars, lockVars>>
  /\ IF AuthMiddleware(RouteRole("/customer/orders"), token) # 0
       THEN /\ lastResp' = Response("/customer/orders", token,
                                    AuthMiddleware(RouteRole("/customer/orders"), token),
                                    FALSE)
            /\ UNCHANGED lastRead
       ELSE \E arrival \in Arrivals(QueryCustomerOrders(customerID)) :
            \E fail \in Failures(Len(arrival)) :
              LET out == getCustomerOrdersWithProducts(arrival, fail)
              IN /\ lastRead' = ReadOutcome("getCustomerOrders", 0, customerID,
                                            QueryCustomerOrders(customerID), fail, out)
                 /\ lastResp' = Response("/customer/orders", token,
                                         IF out.err THEN 500 ELSE 200, TRUE)
  /\ UNCHANGED <<now, advances, limiters, calls, orders, order_products, worker, report>>

\* GET /admin/orders: RateLimitMiddleware(AuthMiddleware(AdminOrdersHandler,
\* "admin")).
AdminOrdersServed(addr, token) ==
  /\ UNCHANGED <<backgroundVars, lockVars>>
  /\ limiters' = LimitersAfterRequest("/admin/orders", addr)
  /\ calls' = CallsAfterRequest("/admin/orders", addr)
  /\ IF Middleware("/admin/orders", addr, token) # 0
       THEN /\ lastResp' = Response("/admin/orders", token,
                                    Middleware("/admin/orders", addr, token), FALSE)
            /\ UNCHANGED lastRead
       ELSE \E arrival \in Arrivals(QueryAllOrders) :
            \E fail \in Failures(Len(arrival)) :
              LET out == getAllOrdersWithProducts(arrival, fail)
              IN /\ lastRead' = ReadOutcome("getAllOrders", 0, 0, QueryAllOrders, fail, out)
                 /\ lastResp' = Response("/admin/orders", token,
                                         IF out.err THEN 500 ELSE 200, TRUE)
  /\ UNCHANGED <<now, advances, orders, order_products, worker, report>>

NoReport == [exists |-> FALSE, rows |-> <<>>]

\* One of the requests explored on the throttled routes.
AdminOrdersRequest(addr, token) ==
  /\ TotalCalls("rateLimiter") < MaxServerRequests
  /\ AdminOrdersServed(addr, token)

\* Roles AuthMiddleware may be constructed with: the two it knows and two it
\* does not.
RoleInputs == {"customer", "admin", "manager", ""}

\* A request to a handler wrapped in AuthMiddleware(next, role), for a role
\* of any spelling: the response of the middleware, or 200 from next.
AuthMiddlewareRequest(role, token) ==
  /\ lastResp' = [route   |-> "",
                  role    |-> role,
                  token   |-> token,
                  status  |-> IF AuthMiddleware(role, token) # 0
                                THEN AuthMiddleware(role, token) ELSE 200,
                  invoked |-> AuthMiddleware(role, token) = 0]
  /\ UNCHANGED <<now, advances, limiters, calls, orders, order_products, worker,
                 lastRead, report, backgroundVars, lockVars>>

\* What may go wrong with the file: os.Create fails, or a write to the
\* created file fails.
FileFailures == {"none", "create", "write"}

\* Whether GenerateCSVReport returns an error.
ReportFails(fail, io) == ReturnsError(fail) \/ io # "none"

\* GenerateCSVReport: order_report.csv afterwards. os.Create truncates the
\* file; one row is written per product of the record getOrderDetails
\* returned. Nothing is written when the query or os.Create fails, no row
\* when a write fails.
GenerateCSVReport(orderID, customerID, arrival, fail, io) ==
  LET out == getOrderDetails(orderID, customerID, arrival, fail)
  IN IF out.err \/ io = "create" THEN report
     ELSE IF io = "write" THEN [exists |-> TRUE, rows |-> <<>>]
     ELSE LET order == CHOOSE r \in out.result : TRUE
          IN [exists |-> TRUE,
              rows   |-> [i \in 1..Len(order.Products) |->
                            [ID |-> order.ID, CustomerID |-> order.CustomerID,
                             ProductID |-> order.Products[i].ID]]]

\* The request failing when its report fails.
ReportStatusFailing(err) == IF err THEN 500 ELSE 201

\* The status PlaceOrderHandler writes after GenerateCSVReport returned err:
\* the error is logged only.
ReportStatus(err) == 201

\* The end of PlaceOrderHandler: the report, then the response.
ReportStep(w, io) ==
  /\ UNCHANGED <<backgroundVars, lockVars>>
  /\ worker[w].pc = "report"
  /\ LET me == worker[w]
     IN \E arrival \in Arrivals(QueryOrderDetails(me.orderID, me.req.customer_id)) :
        \E fail \in Failures(Len(arrival)) :
          /\ report' = GenerateCSVReport(me.orderID, me.req.customer_id,
                                         arrival, fail, io)
          /\ worker' = [worker EXCEPT ![w] =
                          [Responded(me.token, me.req, me.orderID,
                                     ReportStatus(ReportFails(fail, io)))
                             EXCEPT !.reportErr =
                               IF ReportFails(fail, io) THEN "failed" ELSE "ok"]]
  /\ UNCHANGED <<now, advances, limiters, calls, orders, order_products, lastResp, lastRead>>

\* getOrderDetails, getCustomerOrdersWithProducts and
\* getAllOrdersWithProducts called on the store as it is.
GetOrderDetailsCall(orderID, customerID) ==
  /\ UNCHANGED <<backgroundVars, lockVars>>
  /\ \E arrival \in Arrivals(QueryOrderDetails(orderID, customerID)) :
     \E fail \in Failures(Len(arrival)) :
       lastRead' = ReadOutcome("getOrderDetails", orderID, customerID,
                               QueryOrderDetails(orderID, customerID), fail,
                               getOrderDetails(orderID, customerID, arrival, fail))
  /\ UNCHANGED <<now, advances, limiters, calls, orders, order_products, worker,
                 lastResp, report>>

GetCustomerOrdersCall(customerID) ==
  /\ UNCHANGED <<backgroundVars, lockVars>>
  /\ \E arrival \in Arrivals(QueryCustomerOrders(customerID)) :
     \E fail \in Failures(Len(arrival)) :
       lastRead' = ReadOutcome("getCustomerOrders", 0, customerID,
                               QueryCustomerOrders(customerID), fail,
                               getCustomerOrdersWithProducts(arrival, fail))
  /\ UNCHANGED <<now, advances, limiters, calls, orders, order_products, worker,
                 lastResp, report>>

GetAllOrdersCall ==
  /\ UNCHANGED <<backgroundVars, lockVars>>
  /\ \E arrival \in Arrivals(QueryAllOrders) :
     \E fail \in Failures(Len(arrival)) :
       lastRead' = ReadOutcome("getAllOrders", 0, 0, QueryAllOrders, fail,
                               getAllOrdersWithProducts(arrival, fail))
  /\ UNCHANGED <<now, advances, limiters, calls, orders, order_products, worker,
                 lastResp, report>>

(***************************************************************************)
(* The reminder scheduler                                                  *)
(***************************************************************************)

\* now.Day()+1 at 00:00: a day, and time.Sleep(1 * time.Hour), in ms.
DayMs == 86400000

HourMs == 3600000

\* Times of day at which the process may be started: midnight, 01:00, 23:00.
StartTimesOfDay == {0, HourMs, 23 * HourMs}

\* go BackgroundTask(): the goroutine at the top of its loop.
NewTask(startOfDay) == [pc |-> "gate", wake |-> 0, startOfDay |-> startOfDay]

NoSweeps == [n |-> 0, lastStart |-> 0, gap |-> 0, outcome |-> "none"]

\* The local time of day at clock value t.
TimeOfDay(t) == (task.startOfDay + t) % DayMs

\* time.Date(now.Year(), now.Month(), now.Day()+1, 0, 0, 0, 0, now.Location()):
\* the next local midnight strictly after t.
NextMidnight(t) == t + (DayMs - TimeOfDay(t))

\* SELECT id, customer_email FROM orders WHERE status = 'Pending': the ids of
\* the rows.
PendingOrders == {o \in OrderIds : orders[o].status = "Pending"}

\* What may go wrong in a sweep over n rows. On a table orders without the
\* column customer_email (the table initDB creates) the query is refused.
SweepFailures(n) ==
  IF emailColumn THEN Failures(n) ELSE {[kind |-> "query", at |-> 0]}

\* SendEmailReminder(customerEmail, orderID) for a scanned row: the call, with
\* whether smtp.SendMail succeeded. The address is written as the customer
\* it belongs to.
SendEmailReminder(orderID, sent) ==
  [orderID |-> orderID, to |-> orders[orderID].customer_id, sent |-> sent]

\* The loop of SendPendingOrderReminders from row i on: a row whose Scan fails
\* is skipped (continue), every other row is passed to SendEmailReminder,
\* whose failure is only logged.
RECURSIVE RemindFrom(_, _, _, _)
RemindFrom(i, rows, fail, sendOk) ==
  IF i > Len(rows) THEN <<>>
  ELSE IF fail.kind = "scan" /\ fail.at = i
         THEN RemindFrom(i + 1, rows, fail, sendOk)
         ELSE <<SendEmailReminder(rows[i], sendOk[i])>>
                \o RemindFrom(i + 1, rows, fail, sendOk)

\* SendPendingOrderReminders: the SendEmailReminder calls it makes. A failed
\* query returns at once; the loop ends when rows.Next() returns false, also
\* when the row stream broke.
SendPendingOrderReminders(arrival, fail, sendOk) ==
  IF fail.kind = "query" THEN <<>>
  ELSE RemindFrom(1, Visited(arrival, fail), fail, sendOk)

\* The history after a sweep started at time t: sweeps counted up to two,
\* the start time, the time since the sweep before, whether the query failed.
RecordedSweep(h, t, queryFailed) ==
  [n         |-> Min(h.n + 1, 2),
   lastStart |-> t,
   gap       |-> IF h.n = 0 THEN 0 ELSE t - h.lastStart,
   outcome   |-> IF queryFailed THEN "queryFailed" ELSE "swept"]

\* The sweep retried at once when its query failed.
AfterSweepRetrying(t, queryFailed) ==
  IF queryFailed THEN [task EXCEPT !.pc = "gate", !.wake = t]
  ELSE [task EXCEPT !.pc = "sleep", !.wake = NextMidnight(t)]

\* BackgroundTask after SendPendingOrderReminders returned at time t: it
\* sleeps until the next midnight, whatever the sweep did.
AfterSweep(t, queryFailed) ==
  [task EXCEPT !.pc = "sleep", !.wake = NextMidnight(t)]

\* BackgroundTask at the top of its loop: taskLimiter.Allow("background-task");
\* when it is refused the task sleeps one hour.
BackgroundGate ==
  /\ task.pc = "gate"
  /\ limiters' = LimitersAfterAllow("taskLimiter", TaskKey)
  /\ task' = IF AllowOk(limiters["taskLimiter"], TaskKey, now)
               THEN [task EXCEPT !.pc = "sweep"]
               ELSE [task EXCEPT !.pc = "sleep", !.wake = now + HourMs]
  /\ UNCHANGED <<now, advances, calls, serverVars, sweeps, mail, emailColumn, lockVars>>

\* SendPendingOrderReminders() and the computation of the sleep.
BackgroundSweep ==
  /\ task.pc = "sweep"
  /\ \E arrival \in Arrivals(PendingOrders) :
     \E fail \in SweepFailures(Len(arrival)) :
     \E sendOk \in [1..Len(arrival) -> BOOLEAN] :
       /\ mail' = SendPendingOrderReminders(arrival, fail, sendOk)
       /\ sweeps' = RecordedSweep(sweeps, now, fail.kind = "query")
       /\ task' = AfterSweep(now, fail.kind = "query")
  /\ UNCHANGED <<now, advances, limiters, calls, serverVars, emailColumn, lockVars>>

\* A stored time one day earlier, for a clock that is set back by a day. No
\* time before 0 is kept: the clock is then a day or more past it, by when
\* both limiters are full and any sweep is a day old.
DayEarlier(t) == IF t >= DayMs THEN t - DayMs ELSE 0

\* time.Sleep returns: the clock is at the wake-up time. The clock is kept
\* below two days: beyond, a day is taken off it and off every stored time,
\* which changes no time of day and no difference that matters.
BackgroundWake ==
  /\ task.pc = "sleep"
  /\ IF task.wake < 2 * DayMs
       THEN /\ now' = task.wake
            /\ UNCHANGED <<limiters, sweeps>>
       ELSE /\ now' = task.wake - DayMs
            /\ limiters' = [l \in LimiterNames |->
                              [limiters[l] EXCEPT !.last = DayEarlier(@)]]
            /\ sweeps' = [sweeps EXCEPT !.lastStart = DayEarlier(@)]
  /\ task' = [task EXCEPT !.pc = "gate"]
  /\ UNCHANGED <<advances, calls, serverVars, mail, emailColumn, lockVars>>

(***************************************************************************)
(* Concurrent callers of rateLimiter.Allow                                 *)
(***************************************************************************)

\* Allow calls made by the concurrent request goroutines, all together.
MaxConcurrentCalls == 62

\* Request goroutines that are inside RateLimitMiddleware at the same time.
Callers == {"g1", "g2"}

IdleCaller == [pc |-> "idle", key |-> "", tokens |-> 0, ok |-> FALSE]

\* Goroutines inside Allow.
InAllow == {p \in Callers : callers[p].pc # "idle"}

\* An Allow that takes no lock.
MutexIgnored(p) == TRUE

\* lim.mu.Lock() returns for p: the mutex of the limiter is free.
MutexFree(p) == mu = "free"

\* rateLimiter.Allow(r.RemoteAddr) entered: the limiter's mutex is taken.
AllowLock(p, addr) ==
  /\ callers[p].pc = "idle"
  /\ TotalCalls("rateLimiter") + Cardinality(InAllow) < MaxConcurrentCalls
  /\ MutexFree(p)
  /\ mu' = p
  /\ callers' = [callers EXCEPT ![p] = [IdleCaller EXCEPT !.pc = "advance", !.key = addr]]
  /\ UNCHANGED <<now, advances, limiters, calls, serverVars, backgroundVars>>

\* The tokens of the bucket at this time are read.
AllowAdvance(p) ==
  /\ callers[p].pc = "advance"
  /\ callers' = [callers EXCEPT ![p].pc = "reserve",
                                ![p].tokens = Advance(limiters["rateLimiter"], now)]
  /\ UNCHANGED <<now, advances, limiters, calls, serverVars, backgroundVars, mu>>

\* One token is taken when there is one, and the bucket is written back.
AllowReserve(p) ==
  /\ callers[p].pc = "reserve"
  /\ LET ok == callers[p].tokens >= Milli(1)
     IN /\ callers' = [callers EXCEPT ![p].pc = "unlock", ![p].ok = ok]
        /\ limiters' = IF ok
                         THEN [limiters EXCEPT
                                 !["rateLimiter"].tokens = callers[p].tokens - Milli(1),
                                 !["rateLimiter"].last = now]
                         ELSE limiters
  /\ UNCHANGED <<now, advances, calls, serverVars, backgroundVars, mu>>

\* The mutex is released and Allow returns its result.
AllowUnlock(p) ==
  /\ callers[p].pc = "unlock"
  /\ mu' = IF mu = p THEN "free" ELSE mu
  /\ calls' = [calls EXCEPT !["rateLimiter"][callers[p].key] =
                 Recorded(@, now, callers[p].ok)]
  /\ callers' = [callers EXCEPT ![p] = IdleCaller]
  /\ UNCHANGED <<now, advances, limiters, serverVars, backgroundVars>>

(***************************************************************************)
(* Specifications                                                          *)
(***************************************************************************)

\* go BackgroundTask() not yet at its first Allow; the table orders as
\* initDB creates it.
InitBackground ==
  /\ task = NewTask(0)
  /\ sweeps = NoSweeps
  /\ mail = <<>>
  /\ emailColumn = FALSE

\* No request goroutine is inside Allow.
InitCallers ==
  /\ callers = [p \in Callers |-> IdleCaller]
  /\ mu = "free"

\* The process after initDB on an empty database, no request received.
Init ==
  /\ InitLimiters
  /\ InitBackground
  /\ InitCallers
  /\ orders = <<>>
  /\ order_products = {}
  /\ worker = [w \in Workers |-> IdleWorker]
  /\ lastResp = NoResponse
  /\ lastRead = NoRead
  /\ report = NoReport

\* POST /place-order with the customer secret or no header, any body.
Next ==
  \/ \E w \in Workers : \E token \in {customerToken, ""} :
     \E body \in Bodies : PlaceOrderRequest(w, FirstClient, token, body)
  \/ \E w \in Workers : \E dbFail \in BOOLEAN : AssociateStep(w, dbFail)
  \/ \E w \in Workers : \E io \in FileFailures : ReportStep(w, io)

\* Order ingestion: the place-order workers against the store.
Spec == Init /\ [][Next]_vars

\* Bodies sent while the tokens vary: one that is no JSON, and orders of
\* customer 1 for at most one item of product 1.
AccessBodies ==
  {NoRequest} \cup
  {b \in Bodies : /\ b.json
                  /\ b.customer_id = 1
                  /\ Len(b.products) <= 1
                  /\ \A i \in 1..Len(b.products) : b.products[i].product_id = 1}

NextAccess ==
  \/ \E w \in Workers : \E addr \in ClientAddrs : \E token \in TokenInputs :
     \E body \in AccessBodies : PlaceOrderRequest(w, addr, token, body)
  \/ \E w \in Workers : \E dbFail \in BOOLEAN : AssociateStep(w, dbFail)
  \/ \E w \in Workers : \E io \in FileFailures : ReportStep(w, io)
  \/ \E token \in TokenInputs : \E c \in CustomerIdHeaders : CustomerOrdersRequest(token, c)
  \/ \E addr \in ClientAddrs : \E token \in TokenInputs : AdminOrdersRequest(addr, token)

\* The three routes under every Authorization header.
SpecAccess == Init /\ [][NextAccess]_vars

\* The limiters alone: Allow calls and the clock.
NextLimiter ==
  \/ \E l \in LimiterNames : \E k \in LimiterKeys(l) : AllowCall(l, k)
  \/ \E d \in Durations : Tick(d)

SpecLimiter == Init /\ [][NextLimiter]_vars

\* The stores the program can leave behind: headers of existing customers,
\* each with any set of association rows (none, after a failed INSERT).
InitReads ==
  /\ InitLimiters
  /\ InitBackground
  /\ InitCallers
  /\ orders \in SeqsUpTo([customer_id : Customers, date : {0}, status : {"Pending"}],
                         MaxOrders)
  /\ order_products \in {R \in SUBSET [order_id : 1..Len(orders), product_id : Products] :
                           Cardinality(R) <= MaxRows}
  /\ worker = [w \in Workers |-> IdleWorker]
  /\ lastResp = NoResponse
  /\ lastRead = NoRead
  /\ report = NoReport

NextReads ==
  \/ \E o \in 1..MaxOrders : \E c \in CustomerIdHeaders : GetOrderDetailsCall(o, c)
  \/ \E c \in CustomerIdHeaders : GetCustomerOrdersCall(c)
  \/ GetAllOrdersCall

\* The three aggregation reads applied to every such store.
SpecReads == InitReads /\ [][NextReads]_vars

\* The request goroutines racing on rateLimiter.Allow, no time passing.
NextConcurrent ==
  \/ \E p \in Callers : \E addr \in ClientAddrs : AllowLock(p, addr)
  \/ \E p \in Callers : AllowAdvance(p)
  \/ \E p \in Callers : AllowReserve(p)
  \/ \E p \in Callers : AllowUnlock(p)

SpecConcurrent == Init /\ [][NextConcurrent]_vars

\* The process started at some time of day, on a store that holds orders of
\* any status and whose table orders has the column customer_email or, as
\* created by initDB, has not.
InitScheduler ==
  /\ InitLimiters
  /\ InitCallers
  /\ orders \in SeqsUpTo([customer_id : Customers, date : {0},
                          status : {"Pending", "Completed"}], MaxOrders)
  /\ order_products = {}
  /\ worker = [w \in Workers |-> IdleWorker]
  /\ lastResp = NoResponse
  /\ lastRead = NoRead
  /\ report = NoReport
  /\ task \in {NewTask(t) : t \in StartTimesOfDay}
  /\ sweeps = NoSweeps
  /\ mail = <<>>
  /\ emailColumn \in BOOLEAN

NextScheduler ==
  \/ BackgroundGate
  \/ BackgroundSweep
  \/ BackgroundWake

\* BackgroundTask alone, a goroutine that is always scheduled again.
SpecScheduler == InitScheduler /\ [][NextScheduler]_vars /\ WF_vars(NextScheduler)

\* The three routes, and a handler wrapped for a role of any spelling.
NextRoles ==
  \/ NextAccess
  \/ \E role \in RoleInputs : \E token \in TokenInputs : AuthMiddlewareRequest(role, token)

SpecRoles == Init /\ [][NextRoles]_vars

\* Requests explored while the bucket of rateLimiter is drained.
MaxThrottledRequests == 61

\* Bodies sent while the bucket is drained: one that is no JSON, and one
\* order of customer 1 for product 1.
ThrottleBodies ==
  {NoRequest,
   [json |-> TRUE, customer_id |-> 1,
    products |-> <<[product_id |-> 1, quantity |-> 1]>>]}

ThrottledPlaceOrder(token, body) ==
  /\ TotalCalls("rateLimiter") < MaxThrottledRequests
  /\ \E w \in Workers : PlaceOrderServed(w, FirstClient, token, body)

ThrottledAdminOrders(token) ==
  /\ TotalCalls("rateLimiter") < MaxThrottledRequests
  /\ AdminOrdersServed(FirstClient, token)

\* One client address sending request after request to the two throttled
\* routes, no time passing.
NextThrottle ==
  \/ \E token \in TokenInputs : \E body \in ThrottleBodies : ThrottledPlaceOrder(token, body)
  \/ \E token \in TokenInputs : ThrottledAdminOrders(token)
  \/ \E w \in Workers : AssociateStep(w, FALSE)
  \/ \E w \in Workers : ReportStep(w, "none")

SpecThrottle == Init /\ [][NextThrottle]_vars

(***************************************************************************)
(* Properties                                                              *)
(***************************************************************************)

\* C1: on a limiter configured with limit N and window W, the calls made
\* with a key before any time has passed return true up to the N-th and
\* false from the (N+1)-th on, and a call made at least W after the previous
\* call with the key returns true.
C1_LimitCallsThenDenied ==
  \A l \in LimiterNames : \A k \in LimiterKeys(l) :
    /\ (advances = 0 /\ calls[l][k].n >= 1)
         => (calls[l][k].last <=> calls[l][k].n <= ConfiguredLimit(l))
    /\ (calls[l][k].n >= 2 /\ calls[l][k].gap >= ConfiguredWindowMs(l))
         => calls[l][k].last

\* C2: within the first window after process start no key has been approved
\* more than limit times, with the slack of one more bucket.
C2_AtMostLimitPerWindow ==
  \A l \in LimiterNames : \A k \in LimiterKeys(l) :
    now < ConfiguredWindowMs(l) => calls[l][k].granted <= 2 * ConfiguredLimit(l)

\* C3: the first call with a key returns true, whatever was called with the
\* other keys before.
C3_UnseenKeyStartsFull ==
  \A l \in LimiterNames : \A k \in LimiterKeys(l) :
    calls[l][k].n = 1 => calls[l][k].last

SecretOf(role) == IF role = "admin" THEN adminToken ELSE customerToken

\* C4: a request whose Authorization header is not the secret of the route's
\* role is answered 401 by AuthMiddleware and its handler is not invoked; a
\* handler is invoked only for a header equal to that secret.
C4_RolesNotInterchangeable ==
  /\ lastResp.route # "" =>
       /\ (lastResp.token # SecretOf(RouteRole(lastResp.route)) /\ lastResp.status # 429)
            => (lastResp.status = 401 /\ ~lastResp.invoked)
       /\ lastResp.invoked => lastResp.token = SecretOf(RouteRole(lastResp.route))
  /\ \A w \in Workers :
       worker[w].pc # "idle" => worker[w].token = SecretOf(RouteRole("/place-order"))

\* The admin secret was refused on a customer route, and PlaceOrderHandler
\* has run for another request.
C4_AdminSecretRefused ==
  /\ RouteRole(lastResp.route) = "customer"
  /\ lastResp.token = adminToken
  /\ lastResp.status = 401
  /\ \E w \in Workers : worker[w].pc = "done" /\ worker[w].status = 201

\* An order request the contract rejects.
InvalidOrder(req) ==
  \/ req.customer_id <= 0
  \/ req.products = <<>>
  \/ \E i \in DOMAIN req.products : req.products[i].quantity <= 0

\* C5: a step in which PlaceOrderHandler takes up an order with an empty
\* product list, a customer id <= 0 or a quantity <= 0 answers 400 and leaves
\* both tables and the report file as they were.
C5_InvalidOrderNotPersisted ==
  [][\A w \in Workers :
       (/\ worker[w].pc \in {"idle", "done"}
        /\ worker'[w] # worker[w]
        /\ InvalidOrder(worker'[w].req))
       => (/\ worker'[w].pc = "done"
           /\ worker'[w].status = 400
           /\ orders' = orders
           /\ order_products' = order_products
           /\ report' = report)]_vars

\* A well-formed order of an existing customer with a quantity of 0 was
\* answered 400 while the store already held an order.
C5_ZeroQuantityRefused ==
  \E w \in Workers :
    /\ worker[w].pc = "done"
    /\ worker[w].status = 400
    /\ worker[w].req.json
    /\ worker[w].req.customer_id > 0
    /\ worker[w].req.products # <<>>
    /\ orders # <<>>
    /\ report.exists

\* The (product id, quantity) pairs of a request, and those a stored row
\* holds: a row holds the columns of its table.
RequestedPairs(req) ==
  {<<req.products[i].product_id, req.products[i].quantity>> : i \in DOMAIN req.products}

RowPair(r) ==
  IF "quantity" \in DOMAIN r THEN <<r.product_id, r.quantity>> ELSE <<r.product_id>>

\* C6: when place-order has answered 201, the rows of order_products of the
\* new order are exactly the requested (product id, quantity) pairs, one row
\* per pair, and the order's status is "Pending".
C6_PersistedPairsEqualRequested ==
  \A w \in Workers :
    (worker[w].pc = "done" /\ worker[w].status = 201)
      => /\ {RowPair(r) : r \in RowsOf(worker[w].orderID)} = RequestedPairs(worker[w].req)
         /\ Cardinality(RowsOf(worker[w].orderID)) = Len(worker[w].req.products)
         /\ orders[worker[w].orderID].status = "Pending"

RequestedProducts(req) == {req.products[i].product_id : i \in DOMAIN req.products}

StoredProducts(o) == {r.product_id : r \in RowsOf(o)}

ProductIds(rec) == {rec.Products[i].ID : i \in DOMAIN rec.Products}

\* A read of all orders in which no data access fails.
CompleteRead ==
  getAllOrdersWithProducts(CHOOSE arrival \in Arrivals(QueryAllOrders) : TRUE,
                           [kind |-> "none", at |-> 0]).result

\* C7: no order header is in the store, and no order is in what a read of
\* all orders returns, with fewer products than were requested for it.
C7_NoPartialOrderVisible ==
  \A w \in Workers :
    worker[w].orderID # 0 =>
      /\ RequestedProducts(worker[w].req) \subseteq StoredProducts(worker[w].orderID)
      /\ \A rec \in CompleteRead :
           rec.ID = worker[w].orderID => RequestedProducts(worker[w].req) \subseteq ProductIds(rec)

\* The latest read was getOrderDetails for an order of another customer.
ForeignOrderRead ==
  /\ lastRead.op = "getOrderDetails"
  /\ lastRead.orderID \in OrderIds
  /\ orders[lastRead.orderID].customer_id # lastRead.customerID

\* C8 as stated: getOrderDetails for an order of another customer returns
\* nothing, or a record with no product, date or status of the order that
\* does not show the order as the caller's.
C8_ForeignOrderNotPresented ==
  ForeignOrderRead =>
    \A rec \in lastRead.result :
      /\ rec.Products = <<>>
      /\ rec.Date = ZeroTime
      /\ rec.Status = ""
      /\ ~(rec.ID = lastRead.orderID /\ rec.CustomerID = lastRead.customerID)

\* C8 as amended: getOrderDetails for an order of another customer returns an
\* error, or the record made of its two arguments alone: no product, the zero
\* date and the empty status.
C8_ForeignOrderYieldsArgumentsOnly ==
  ForeignOrderRead =>
    /\ lastRead.err <=> lastRead.result = {}
    /\ lastRead.result \subseteq
         {[ID |-> lastRead.orderID, CustomerID |-> lastRead.customerID,
           Date |-> ZeroTime, Status |-> "", Products |-> <<>>]}

\* getOrderDetails returned a record for an order of another customer that
\* has products.
C8_ForeignOrderWithProductsRead ==
  /\ ForeignOrderRead
  /\ RowsOf(lastRead.orderID) # {}
  /\ lastRead.result # {}

\* C9: what getCustomerOrders and getAllOrders return holds at most one
\* record per order id, the products of a record are exactly the rows of
\* order_products of its order, and getCustomerOrders returns orders of the
\* customer only.
C9_RecordsMatchAssociationRows ==
  (lastRead.op \in {"getCustomerOrders", "getAllOrders"} /\ ~lastRead.err) =>
    /\ \A r1, r2 \in lastRead.result : r1.ID = r2.ID => r1 = r2
    /\ \A rec \in lastRead.result :
         /\ ProductIds(rec) = StoredProducts(rec.ID)
         /\ Len(rec.Products) = Cardinality(RowsOf(rec.ID))
         /\ lastRead.op = "getCustomerOrders"
              => orders[rec.ID].customer_id = lastRead.customerID

\* C10 as stated: no record returned by any of the three reads has an empty
\* product sequence.
C10_NoRecordWithoutProducts ==
  \A rec \in lastRead.result : rec.Products # <<>>

\* C10 as amended: getCustomerOrders and getAllOrders return no record with
\* an empty product sequence and no order without association rows;
\* getOrderDetails returns one record whenever it returns no error, with an
\* empty product sequence when its query matched no row.
C10_OnlyOrderDetailsReturnsEmptyRecord ==
  /\ lastRead.op \in {"getCustomerOrders", "getAllOrders"} =>
       \A rec \in lastRead.result : rec.Products # <<>> /\ RowsOf(rec.ID) # {}
  /\ (lastRead.op = "getOrderDetails" /\ ~lastRead.err) =>
       /\ Cardinality(lastRead.result) = 1
       /\ lastRead.rows = {} => \A rec \in lastRead.result : rec.Products = <<>>

\* getAllOrders returned records from a store that also holds an order
\* without association rows.
C10_OrderWithoutRowsLeftOut ==
  /\ lastRead.op = "getAllOrders"
  /\ lastRead.result # {}
  /\ \E o \in OrderIds : RowsOf(o) = {}

\* C11: a read during which a data access failed (the query, the scan of a
\* row, or the row stream after some rows were folded) returns an error and
\* no result.
C11_FailureAbortsRead ==
  lastRead.fail # "none" => (lastRead.err /\ lastRead.result = {})

\* C12: two sweeps of one process run start at least 24 hours apart.
C12_SweepsADayApart ==
  sweeps.n >= 2 => sweeps.gap >= DayMs

\* The SendEmailReminder calls of the latest sweep for order o.
RemindersFor(o) == {i \in DOMAIN mail : mail[i].orderID = o}

\* C14: after a sweep whose query succeeded, SendEmailReminder was called
\* exactly once for every Pending order, with the address of its customer,
\* and for no other order.
C14_EachPendingOrderRemindedOnce ==
  sweeps.outcome = "swept" =>
    /\ \A o \in OrderIds :
         Cardinality(RemindersFor(o)) = (IF orders[o].status = "Pending" THEN 1 ELSE 0)
    /\ \A i \in DOMAIN mail :
         mail[i].orderID \in OrderIds /\ mail[i].to = orders[mail[i].orderID].customer_id

\* C18: a sweep whose query fails calls SendEmailReminder for no order, gives
\* no permit back, and leaves the task sleeping until the next midnight as a
\* successful sweep does; the task is back at its gate again and again.
C18_FailedSweepSleepsTillMidnight ==
  /\ [][(task.pc = "sweep" /\ task' # task /\ sweeps'.outcome = "queryFailed")
          => /\ mail' = <<>>
             /\ limiters' = limiters
             /\ task'.pc = "sleep"
             /\ task'.wake = NextMidnight(now)
             /\ task'.wake > now]_vars
  /\ []<>(task.pc = "gate")

\* The task is back at its gate, a day later, after a sweep whose query
\* failed on a store that holds a Pending order.
C18_BackAtGateAfterFailedSweep ==
  /\ sweeps.outcome = "queryFailed"
  /\ sweeps.n >= 2
  /\ task.pc = "gate"
  /\ PendingOrders # {}

\* C19: a sweep is started again and again, and on the store as initDB
\* creates it every order that is Pending is eventually passed to
\* SendEmailReminder.
C19_PendingOrderEventuallyReminded ==
  /\ []<>(task.pc = "sweep")
  /\ \A o \in 1..MaxOrders :
       (~emailColumn /\ o \in PendingOrders) ~> (RemindersFor(o) # {})

\* C13: the step that generates the report answers 201 and leaves both
\* tables as they are, whether the report fails or not; the report is
\* generated, and the file touched, only by a request whose header and
\* associations are all stored.
C13_ReportNeverFailsOrder ==
  [][\A w \in Workers :
       /\ (worker[w].pc = "report" /\ worker'[w] # worker[w])
            => /\ worker'[w].pc = "done"
               /\ worker'[w].status = 201
               /\ worker'[w].reportErr \in {"ok", "failed"}
               /\ orders' = orders
               /\ order_products' = order_products
       /\ ((worker'[w] # worker[w] /\ worker'[w].reportErr # "none") \/ report' # report)
            => /\ worker[w].pc = "report"
               /\ worker[w].orderID \in OrderIds
               /\ RequestedProducts(worker[w].req) = StoredProducts(worker[w].orderID)]_vars

\* An order was answered 201 although its report failed and no report file
\* exists.
C13_OrderPlacedReportFailed ==
  \E w \in Workers :
    /\ worker[w].pc = "done"
    /\ worker[w].status = 201
    /\ worker[w].reportErr = "failed"
    /\ ~report.exists

\* C15: a handler wrapped for a role other than "customer" and "admin" answers
\* every request 500, whatever its Authorization header, and is not invoked.
C15_UnknownRoleIsServerFault ==
  lastResp.role \notin {"", "customer", "admin"}
    => (lastResp.status = 500 /\ ~lastResp.invoked)

\* A request with the admin secret to a handler wrapped for the role
\* "manager" was answered 500.
C15_ManagerRoleRefusedAdminSecret ==
  /\ lastResp.role = "manager"
  /\ lastResp.token = adminToken
  /\ lastResp.status = 500

\* Allow calls on rateLimiter that returned true, over all keys.
TotalGranted ==
  LET RECURSIVE Sum(_)
      Sum(S) == IF S = {} THEN 0
                ELSE LET k == CHOOSE x \in S : TRUE
                     IN calls["rateLimiter"][k].granted + Sum(S \ {k})
  IN Sum(ClientAddrs)

\* Permits taken by calls that have not returned yet.
GrantedInFlight == Cardinality({p \in Callers : callers[p].pc = "unlock" /\ callers[p].ok})

\* C16: with no time passing, every permit that left the bucket was granted
\* to exactly one call, so that no more calls return true than the bucket
\* held; a goroutine is inside Allow only while it holds the mutex, and its
\* next step is always enabled, so that a call waits for no permit of another
\* caller; a call is refused only when every permit has been granted.
C16_NoPermitGrantedTwice ==
  /\ Milli(TotalGranted + GrantedInFlight) + limiters["rateLimiter"].tokens
       = Milli(limiters["rateLimiter"].burst)
  /\ TotalGranted + GrantedInFlight <= limiters["rateLimiter"].burst
  /\ \A p \in Callers : callers[p].pc # "idle" => mu = p
  /\ \A p \in Callers :
       callers[p].pc # "idle"
         => ENABLED (AllowAdvance(p) \/ AllowReserve(p) \/ AllowUnlock(p))
  /\ \A k \in ClientAddrs :
       (calls["rateLimiter"][k].n >= 1 /\ ~calls["rateLimiter"][k].last)
         => TotalGranted + GrantedInFlight = limiters["rateLimiter"].burst

\* Both addresses were granted permits, the bucket is empty and a call was
\* refused.
C16_BucketDrainedByTwoCallers ==
  /\ \A k \in ClientAddrs : calls["rateLimiter"][k].granted >= 1
  /\ limiters["rateLimiter"].tokens = 0
  /\ \E k \in ClientAddrs : calls["rateLimiter"][k].n >= 1 /\ ~calls["rateLimiter"][k].last

\* A step that serves a request on a throttled route: it makes one Allow call.
ThrottledStep == TotalCalls("rateLimiter")' = TotalCalls("rateLimiter") + 1

\* Whether rateLimiter has a permit for a request arriving now.
PermitLeft == AllowOk(limiters["rateLimiter"], FirstClient, now)

\* C17: on the throttled routes a request that finds no permit is answered
\* 429 whatever its token; one that finds a permit and whose token is not the
\* secret of the route's role is answered 401; the handler runs only for a
\* request that found a permit and carries that secret; a request whose
\* handler does not run leaves the store as it is.
C17_LimiterThenTokenThenHandler ==
  [][ThrottledStep =>
       IF ~PermitLeft
         THEN /\ lastResp'.status = 429
              /\ ~lastResp'.invoked
              /\ UNCHANGED <<worker, orders, order_products, report, lastRead>>
         ELSE \/ /\ lastResp'.status = 401
                 /\ ~lastResp'.invoked
                 /\ lastResp'.token # SecretOf(lastResp'.role)
                 /\ UNCHANGED <<worker, orders, order_products, report, lastRead>>
              \/ /\ lastResp'.route = "/admin/orders"
                 /\ lastResp'.invoked
                 /\ lastResp'.token = adminToken
                 /\ UNCHANGED worker
              \/ /\ UNCHANGED lastResp
                 /\ \E w \in Workers :
                      /\ worker'[w].pc \in {"done", "associate"}
                      /\ worker'[w].token = customerToken]_vars

\* A request without a token was answered 429, after a place-order handler
\* had run.
C17_NoTokenAnswered429 ==
  /\ lastResp.status = 429
  /\ lastResp.token = ""
  /\ \E w \in Workers : worker[w].pc = "done" /\ worker[w].status = 201

\* C20: with no time passing, every request on a throttled route that finds
\* a permit takes it, whether it is then answered 401 or served; once as many
\* requests as the bucket held have taken one, the next request is answered
\* 429 and its handler does not run, also when its token is right.
C20_RejectedRequestsConsumePermits ==
  [][ThrottledStep =>
       /\ PermitLeft =>
            limiters'["rateLimiter"].tokens = limiters["rateLimiter"].tokens - Milli(1)
       /\ TotalGranted = limiters["rateLimiter"].burst
            => /\ worker' = worker
               /\ lastResp'.status = 429
               /\ ~lastResp'.invoked]_vars

\* A request with the right token was answered 429 although no handler has
\* ever run: every permit went to a request that was answered 401.
C20_AuthenticatedRequestThrottled ==
  /\ lastResp.status = 429
  /\ lastResp.token = SecretOf(lastResp.role)
  /\ lastResp.route \in {"/place-order", "/admin/orders"}
  /\ \A w \in Workers : worker[w] = IdleWorker
  /\ lastRead = NoRead
  /\ orders = <<>>

=============================================================================
